---- MODULE Spec2Model ----
(***************************************************************************)
(* Broken-word repair engine of pdf_text_cleanup.py: the cached Lexicon,   *)
(* the ligature normalizer, the token segmenter, the merge decision engine *)
(* and the line scanner.                                                   *)
(*                                                                         *)
(* A character is a one-character string; a token, a line and a text are   *)
(* sequences of characters.  The ligature code points U+FB00..U+FB06 are   *)
(* written "U+FB00".."U+FB06".                                             *)
(***************************************************************************)
EXTENDS Naturals, Sequences, FiniteSets

VARIABLES
    _dictionary,     \* the module global: None, or the cached word set
    loads,           \* history: how many times _load_dictionary has run
    pc,              \* "idle" | "scan" (inside _clean_line's loop) | "done"
    op,              \* the entry point of the call in progress / last made
    input,           \* the arguments of that call
    ret,             \* its return value, once pc = "done"
    lines,           \* clean_broken_words: text.split("\n")
    li,              \* clean_broken_words: index of the line being cleaned
    cleaned_lines,   \* clean_broken_words: the lines cleaned so far
    tokens,          \* _clean_line: line.split(" ")
    i,               \* _clean_line: scan position (0-based, as in the code)
    result,          \* _clean_line: tokens emitted so far
    tpc,             \* per concurrent caller: position inside get_dictionary
    tloc             \* per concurrent caller: value returned by its own load

vars == <<_dictionary, loads, pc, op, input, ret, lines, li, cleaned_lines,
          tokens, i, result, tpc, tloc>>

scanVars == <<lines, li, cleaned_lines, tokens, i, result>>
threadVars == <<tpc, tloc>>

----------------------------------------------------------------------------
(* Bounds of the model *)

\* longest input text of clean_broken_words, in tokens
MaxTokens == 3
\* longest token / text handed to the pure functions, in characters
MaxChars == 4
\* number of callers racing on the first access to the Lexicon
NumThreads == 2

----------------------------------------------------------------------------
(* Characters *)

UpperLetters == <<"A","B","C","D","E","F","G","H","I","J","K","L","M",
                  "N","O","P","Q","R","S","T","U","V","W","X","Y","Z">>
LowerLetters == <<"a","b","c","d","e","f","g","h","i","j","k","l","m",
                  "n","o","p","q","r","s","t","u","v","w","x","y","z">>

Range(s) == { s[k] : k \in 1..Len(s) }

\* Unicode ligature -> ASCII expansion
_LIGATURE_MAP ==
    [c \in {"U+FB00","U+FB01","U+FB02","U+FB03","U+FB04","U+FB05","U+FB06"} |->
        CASE c = "U+FB00" -> <<"f","f">>
          [] c = "U+FB01" -> <<"f","i">>
          [] c = "U+FB02" -> <<"f","l">>
          [] c = "U+FB03" -> <<"f","f","i">>
          [] c = "U+FB04" -> <<"f","f","l">>
          [] c = "U+FB05" -> <<"s","t">>
          [] c = "U+FB06" -> <<"s","t">>]

LigatureChars == DOMAIN _LIGATURE_MAP

\* the characters str.isalpha() accepts: the letters, and the ligature code
\* points (Unicode category Ll)
AlphaChars == Range(UpperLetters) \cup Range(LowerLetters) \cup LigatureChars

\* str.isalpha() on one character
isalpha(c) == c \in AlphaChars

\* upper-case letter -> lower-case letter
LowerOf ==
    [c \in Range(UpperLetters) |->
        LowerLetters[CHOOSE k \in 1..Len(UpperLetters) : UpperLetters[k] = c]]

\* str.lower() on one character
lower_char(c) == IF c \in DOMAIN LowerOf THEN LowerOf[c] ELSE c

\* str.lower()
lower(s) == [k \in 1..Len(s) |-> lower_char(s[k])]

\* str.endswith
endswith(s, suffix) ==
    /\ Len(suffix) <= Len(s)
    /\ SubSeq(s, Len(s) - Len(suffix) + 1, Len(s)) = suffix

\* mutant of split: str.split() without an argument, which drops the empty
\* strings between adjacent separators
RECURSIVE split_dropping_empty(_, _)
split_dropping_empty(s, sep) ==
    IF \A k \in 1..Len(s) : s[k] # sep
    THEN <<s>>
    ELSE LET k == CHOOSE k \in 1..Len(s) :
                      s[k] = sep /\ \A j \in 1..(k-1) : s[j] # sep
             rest == split_dropping_empty(SubSeq(s, k+1, Len(s)), sep)
         IN  IF k = 1 THEN rest
             ELSE IF rest = << <<>> >> THEN <<SubSeq(s, 1, k-1)>>
             ELSE <<SubSeq(s, 1, k-1)>> \o rest

\* str.split(sep) for a one-character separator
RECURSIVE split(_, _)
split(s, sep) ==
    IF \A k \in 1..Len(s) : s[k] # sep
    THEN <<s>>
    ELSE LET k == CHOOSE k \in 1..Len(s) :
                      s[k] = sep /\ \A j \in 1..(k-1) : s[j] # sep
         IN  <<SubSeq(s, 1, k-1)>> \o split(SubSeq(s, k+1, Len(s)), sep)

\* sep.join(parts)
RECURSIVE join(_, _)
join(parts, sep) ==
    IF Len(parts) = 0 THEN <<>>
    ELSE IF Len(parts) = 1 THEN parts[1]
    ELSE parts[1] \o <<sep>> \o join(Tail(parts), sep)

\* "".join(parts)
RECURSIVE concat(_)
concat(parts) ==
    IF Len(parts) = 0 THEN <<>> ELSE parts[1] \o concat(Tail(parts))

----------------------------------------------------------------------------
(* Lexicon *)

None == [is_none |-> TRUE, words |-> {}]
Some(d) == [is_none |-> FALSE, words |-> d]

\* The words a dictionary source can hold: lowercase strings, some of them
\* not alphabetic (the system word list carries possessives such as "fit's").
LexiconWords ==
    { <<"a">>, <<"f","i">>, <<"r","e">>, <<"a","t">>,
      <<"a","r","e">>, <<"f","i","t">>, <<"f","i","r","e">>,
      <<"a","r","e","a">>, <<"a","f","i","r","e">>, <<"r","e","f","i","t">>,
      <<"f","i","t","'","s">>, <<"f","i","l","l","e","d">>,
      <<"r","e","f","i","l","l","e","d">>,
      \* "ta" and "tat": a word whose first two fragments are a word too
      <<"t","a">>, <<"t","a","t">>,
      \* an entry made of three fragments of four letters each
      <<"r","e","f","i","r","e","f","i","l","l","e","d">> }

\* What _load_dictionary can return: set() when no source is available,
\* otherwise the (expanded) word set of the first source that has words.
_load_dictionary == { {}, LexiconWords }

\* is_word, given the set get_dictionary() returned
is_word(token, d) == lower(token) \in d

----------------------------------------------------------------------------
(* Ligature normalizer *)

\* mutant of normalize_ligatures: only the first ligature is replaced
\* (re.sub with count=1)
normalize_ligatures_first_only(text) ==
    IF \A k \in 1..Len(text) : text[k] \notin DOMAIN _LIGATURE_MAP
    THEN text
    ELSE LET k == CHOOSE k \in 1..Len(text) :
                      /\ text[k] \in DOMAIN _LIGATURE_MAP
                      /\ \A j \in 1..(k-1) : text[j] \notin DOMAIN _LIGATURE_MAP
         IN  SubSeq(text, 1, k-1) \o _LIGATURE_MAP[text[k]]
                \o SubSeq(text, k+1, Len(text))

RECURSIVE normalize_ligatures(_)
normalize_ligatures(text) ==
    IF text = <<>> THEN <<>>
    ELSE (IF Head(text) \in DOMAIN _LIGATURE_MAP
          THEN _LIGATURE_MAP[Head(text)]
          ELSE <<Head(text)>>) \o normalize_ligatures(Tail(text))

----------------------------------------------------------------------------
(* Token segmenter *)

\* first while loop of _strip_punctuation (start, end are 0-based offsets)
RECURSIVE scan_start(_, _, _)
scan_start(token, start, end) ==
    IF start < end /\ ~isalpha(token[start + 1])
    THEN scan_start(token, start + 1, end)
    ELSE start

\* mutant of scan_end: the backward scan stops after one character
scan_end_one_step(token, start, end) ==
    IF end > start /\ ~isalpha(token[end]) THEN end - 1 ELSE end

\* second while loop of _strip_punctuation
RECURSIVE scan_end(_, _, _)
scan_end(token, start, end) ==
    IF end > start /\ ~isalpha(token[end])
    THEN scan_end(token, start, end - 1)
    ELSE end

\* (leading_punct, alpha_core, trailing_punct)
_strip_punctuation(token) ==
    LET start == scan_start(token, 0, Len(token))
        end   == scan_end(token, start, Len(token))
    IN  << SubSeq(token, 1, start),
           SubSeq(token, start + 1, end),
           SubSeq(token, end + 1, Len(token)) >>

\* mutant of _is_fragment: only the emptiness test, no isalpha()
_is_fragment_nonempty_only(core) == core # <<>>

_is_fragment(core) == core # <<>> /\ \A k \in 1..Len(core) : isalpha(core[k])

----------------------------------------------------------------------------
(* Merge decision engine *)

\* mutant of _should_merge: the all_real safety check is missing
_should_merge_without_all_real(fragments, max_short, d) ==
    LET candidate == concat(fragments)
        has_short == \E k \in 1..Len(fragments) : Len(fragments[k]) <= max_short
    IN  IF ~is_word(candidate, d) THEN FALSE
        ELSE has_short

\* mutant of _should_merge: a fragment counts as short only below max_short
_should_merge_strictly_shorter(fragments, max_short, d) ==
    LET candidate == concat(fragments)
        has_short == \E k \in 1..Len(fragments) : Len(fragments[k]) < max_short
        all_real  == \A k \in 1..Len(fragments) : is_word(fragments[k], d)
    IN  IF ~is_word(candidate, d) THEN FALSE
        ELSE has_short /\ ~all_real

_should_merge(fragments, max_short, d) ==
    LET candidate == concat(fragments)
        has_short == \E k \in 1..Len(fragments) : Len(fragments[k]) <= max_short
        all_real  == \A k \in 1..Len(fragments) : is_word(fragments[k], d)
    IN  IF ~is_word(candidate, d) THEN FALSE
        ELSE has_short /\ ~all_real

_LIGATURE_ENDINGS ==
    << <<"f","i">>, <<"f","l">>, <<"f","f">>, <<"f","f","i">>,
       <<"f","f","l">>, <<"f","t">>, <<"c","t">>, <<"s","t">> >>

_LIGATURE_STANDALONE ==
    { <<"f","i">>, <<"f","l">>, <<"f","f">>, <<"f","f","i">>,
      <<"f","f","l">>, <<"s","t">> }

_has_ligature_boundary(core_a, core_b) ==
    LET lower_a == lower(core_a)
    IN  \E k \in 1..Len(_LIGATURE_ENDINGS) : endswith(lower_a, _LIGATURE_ENDINGS[k])

_is_ligature_fragment(core) == lower(core) \in _LIGATURE_STANDALONE

----------------------------------------------------------------------------
(* Line scanner: the decisions of one iteration of _clean_line's loop.     *)
(* toks is the token list, pos the 0-based position i, d the Lexicon.      *)

\* the 3-token attempt fires
triple_merges(toks, pos, d) ==
    /\ pos + 2 < Len(toks)
    /\ LET a == _strip_punctuation(toks[pos + 1])
           b == _strip_punctuation(toks[pos + 2])
           c == _strip_punctuation(toks[pos + 3])
       IN  /\ _is_fragment(a[2]) /\ a[3] = <<>>
           /\ _is_fragment(b[2]) /\ b[1] = <<>> /\ b[3] = <<>>
           /\ _is_fragment(c[2]) /\ c[1] = <<>>
           /\ _should_merge(<<a[2], b[2], c[2]>>, 4, d)

\* what the 3-token merge appends to result
triple_token(toks, pos) ==
    LET a == _strip_punctuation(toks[pos + 1])
        b == _strip_punctuation(toks[pos + 2])
        c == _strip_punctuation(toks[pos + 3])
    IN  a[1] \o (a[2] \o b[2] \o c[2]) \o c[3]

\* mutant of pair_merges: the standalone ligature override is missing
pair_merges_without_standalone(toks, pos, d) ==
    /\ pos + 1 < Len(toks)
    /\ LET a == _strip_punctuation(toks[pos + 1])
           b == _strip_punctuation(toks[pos + 2])
       IN  /\ _is_fragment(a[2]) /\ a[3] = <<>>
           /\ _is_fragment(b[2]) /\ b[1] = <<>>
           /\ \/ _should_merge(<<a[2], b[2]>>, 3, d)
              \/ /\ _has_ligature_boundary(a[2], b[2])
                 /\ is_word(a[2] \o b[2], d)
                 /\ ~is_word(a[2], d)

\* mutant of pair_merges: the ligature boundary rule is missing
pair_merges_without_boundary(toks, pos, d) ==
    /\ pos + 1 < Len(toks)
    /\ LET a == _strip_punctuation(toks[pos + 1])
           b == _strip_punctuation(toks[pos + 2])
       IN  /\ _is_fragment(a[2]) /\ a[3] = <<>>
           /\ _is_fragment(b[2]) /\ b[1] = <<>>
           /\ \/ _should_merge(<<a[2], b[2]>>, 3, d)
              \/ _is_ligature_fragment(a[2]) /\ is_word(a[2] \o b[2], d)

\* the 2-token attempt fires (it is tried only when the 3-token one did not)
pair_merges(toks, pos, d) ==
    /\ pos + 1 < Len(toks)
    /\ LET a == _strip_punctuation(toks[pos + 1])
           b == _strip_punctuation(toks[pos + 2])
       IN  /\ _is_fragment(a[2]) /\ a[3] = <<>>
           /\ _is_fragment(b[2]) /\ b[1] = <<>>
           /\ \/ _should_merge(<<a[2], b[2]>>, 3, d)
              \/ _is_ligature_fragment(a[2]) /\ is_word(a[2] \o b[2], d)
              \/ /\ _has_ligature_boundary(a[2], b[2])
                 /\ is_word(a[2] \o b[2], d)
                 /\ ~is_word(a[2], d)

\* mutant of pair_token: the trailing punctuation of the second token is lost
pair_token_without_trailing(toks, pos) ==
    LET a == _strip_punctuation(toks[pos + 1])
        b == _strip_punctuation(toks[pos + 2])
    IN  a[1] \o (a[2] \o b[2])

\* what the 2-token merge appends to result
pair_token(toks, pos) ==
    LET a == _strip_punctuation(toks[pos + 1])
        b == _strip_punctuation(toks[pos + 2])
    IN  a[1] \o (a[2] \o b[2]) \o b[3]

----------------------------------------------------------------------------
(* Inputs *)

Separators == {" ", "\n"}

\* tokens the input texts of clean_broken_words are made of
TokenPool ==
    { <<>>,                               \* between two adjacent spaces
      <<"a">>, <<"f","i">>, <<"r","e">>,  \* Lexicon words
      <<"t">>,                            \* a fragment that is no word
      <<"t","'","s">>,                    \* interior punctuation
      <<"(","F","i">>,                    \* leading punctuation, upper case
      <<"l","l","e","d",".">>,            \* trailing punctuation
      <<"r","e","U+FB01">> }              \* a ligature code point

RECURSIVE build_text(_, _)
build_text(toks, seps) ==
    IF Len(toks) = 1 THEN toks[1]
    ELSE toks[1] \o <<seps[1]>> \o build_text(Tail(toks), Tail(seps))

Texts ==
    UNION { { build_text(toks, seps) :
                toks \in [1..n -> TokenPool], seps \in [1..(n-1) -> Separators] } :
            n \in 1..MaxTokens }

\* characters of the strings handed to the pure functions
CharPool == {"a", "F", ".", "'", "U+FB01", "U+FB03"}

Strings == UNION { [1..n -> CharPool] : n \in 0..MaxChars }

\* alphabetic fragments handed to is_word and _should_merge
FragmentPool ==
    { <<"a">>, <<"A">>, <<"f","i">>, <<"F","i">>, <<"r","e">>, <<"t">>,
      <<"r","e","f","i">>, <<"l","l","e","d">> }

FragmentLists == [1..2 -> FragmentPool] \cup [1..3 -> FragmentPool]

ShortLens == 0..5

----------------------------------------------------------------------------
(* State machine of a single-threaded process calling the entry points     *)

Threads == 1..NumThreads

NoScan ==
    /\ lines = <<>> /\ li = 0 /\ cleaned_lines = <<>>
    /\ tokens = <<>> /\ i = 0 /\ result = <<>>

Init ==
    /\ _dictionary = None
    /\ loads = 0
    /\ pc = "idle" /\ op = "none" /\ input = <<>> /\ ret = <<>>
    /\ NoScan
    /\ tpc = [t \in Threads |-> "idle"]
    /\ tloc = [t \in Threads |-> {}]

\* the locals of clean_broken_words and _clean_line are gone on return
ResetScan ==
    /\ lines' = <<>> /\ li' = 0 /\ cleaned_lines' = <<>>
    /\ tokens' = <<>> /\ i' = 0 /\ result' = <<>>

\* no call is in progress
Ready == pc = "idle"

\* mutant of get_dictionary: `if not _dictionary`, which also reloads an
\* empty Lexicon
get_dictionary_reloading_empty ==
    IF _dictionary.is_none \/ _dictionary.words = {}
    THEN \E d \in _load_dictionary :
            /\ _dictionary' = Some(d)
            /\ loads' = loads + 1
    ELSE UNCHANGED <<_dictionary, loads>>

\* get_dictionary: load on first call, then the cached set
get_dictionary ==
    IF _dictionary.is_none
    THEN \E d \in _load_dictionary :
            /\ _dictionary' = Some(d)
            /\ loads' = loads + 1
    ELSE UNCHANGED <<_dictionary, loads>>

CallGetDictionary ==
    /\ Ready
    /\ get_dictionary
    /\ op' = "get_dictionary" /\ input' = <<>>
    /\ ret' = _dictionary'.words
    /\ pc' = "done"
    /\ UNCHANGED <<scanVars, threadVars>>

CallIsWord(token) ==
    /\ Ready
    /\ get_dictionary
    /\ op' = "is_word" /\ input' = token
    /\ ret' = is_word(token, _dictionary'.words)
    /\ pc' = "done"
    /\ UNCHANGED <<scanVars, threadVars>>

CallShouldMerge(fragments, max_short) ==
    /\ Ready
    /\ get_dictionary
    /\ op' = "_should_merge" /\ input' = <<fragments, max_short>>
    /\ ret' = _should_merge(fragments, max_short, _dictionary'.words)
    /\ pc' = "done"
    /\ UNCHANGED <<scanVars, threadVars>>

CallNormalizeLigatures(text) ==
    /\ Ready
    /\ op' = "normalize_ligatures" /\ input' = text
    /\ ret' = normalize_ligatures(text)
    /\ pc' = "done"
    /\ UNCHANGED <<_dictionary, loads, scanVars, threadVars>>

CallStripPunctuation(token) ==
    /\ Ready
    /\ op' = "_strip_punctuation" /\ input' = token
    /\ ret' = _strip_punctuation(token)
    /\ pc' = "done"
    /\ UNCHANGED <<_dictionary, loads, scanVars, threadVars>>

\* mutant of CallCleanBrokenWords: degraded mode returns the text as it was
\* before the ligatures were normalized
CallCleanBrokenWords_degraded_returns_raw(t) ==
    /\ Ready
    /\ get_dictionary
    /\ op' = "clean_broken_words" /\ input' = t
    /\ LET text == normalize_ligatures(t)
       IN  IF _dictionary'.words = {}
           THEN /\ ret' = t
                /\ pc' = "done"
                /\ ResetScan
           ELSE /\ lines' = split(text, "\n")
                /\ li' = 1
                /\ cleaned_lines' = <<>>
                /\ tokens' = split(lines'[1], " ")
                /\ i' = 0
                /\ result' = <<>>
                /\ ret' = <<>>
                /\ pc' = "scan"
    /\ UNCHANGED threadVars

\* clean_broken_words up to the first iteration of the first line's scan
CallCleanBrokenWords(t) ==
    /\ Ready
    /\ get_dictionary
    /\ op' = "clean_broken_words" /\ input' = t
    /\ LET text == normalize_ligatures(t)
       IN  IF _dictionary'.words = {}
           THEN /\ ret' = text
                /\ pc' = "done"
                /\ ResetScan
           ELSE /\ lines' = split(text, "\n")
                /\ li' = 1
                /\ cleaned_lines' = <<>>
                /\ tokens' = split(lines'[1], " ")
                /\ i' = 0
                /\ result' = <<>>
                /\ ret' = <<>>
                /\ pc' = "scan"
    /\ UNCHANGED threadVars

Scanning == pc = "scan" /\ i < Len(tokens)

\* mutant of TripleMerge: i advances by 2, so the third token of the
\* window is scanned again
TripleMerge_advancing_two ==
    /\ pc = "scan" /\ i < Len(tokens)
    /\ triple_merges(tokens, i, _dictionary.words)
    /\ result' = Append(result, triple_token(tokens, i))
    /\ i' = i + 2
    /\ UNCHANGED <<_dictionary, loads, pc, op, input, ret, lines, li,
                   cleaned_lines, tokens, threadVars>>

TripleMerge ==
    /\ Scanning
    /\ triple_merges(tokens, i, _dictionary.words)
    /\ result' = Append(result, triple_token(tokens, i))
    /\ i' = i + 3
    /\ UNCHANGED <<_dictionary, loads, pc, op, input, ret, lines, li,
                   cleaned_lines, tokens, threadVars>>

\* mutant of PairMerge: the 2-token window is tried whether or not the
\* 3-token attempt fires
PairMerge_before_triple ==
    /\ pc = "scan" /\ i < Len(tokens)
    /\ pair_merges(tokens, i, _dictionary.words)
    /\ result' = Append(result, pair_token(tokens, i))
    /\ i' = i + 2
    /\ UNCHANGED <<_dictionary, loads, pc, op, input, ret, lines, li,
                   cleaned_lines, tokens, threadVars>>

PairMerge ==
    /\ Scanning
    /\ ~triple_merges(tokens, i, _dictionary.words)
    /\ pair_merges(tokens, i, _dictionary.words)
    /\ result' = Append(result, pair_token(tokens, i))
    /\ i' = i + 2
    /\ UNCHANGED <<_dictionary, loads, pc, op, input, ret, lines, li,
                   cleaned_lines, tokens, threadVars>>

NoMerge ==
    /\ Scanning
    /\ ~triple_merges(tokens, i, _dictionary.words)
    /\ ~pair_merges(tokens, i, _dictionary.words)
    /\ result' = Append(result, tokens[i + 1])
    /\ i' = i + 1
    /\ UNCHANGED <<_dictionary, loads, pc, op, input, ret, lines, li,
                   cleaned_lines, tokens, threadVars>>

\* _clean_line returns " ".join(result); clean_broken_words goes on to the
\* next line, or returns "\n".join(cleaned_lines) after the last one
EndLine ==
    /\ pc = "scan" /\ i >= Len(tokens)
    /\ LET cleaned == Append(cleaned_lines, join(result, " "))
       IN  IF li < Len(lines)
           THEN /\ cleaned_lines' = cleaned
                /\ li' = li + 1
                /\ tokens' = split(lines[li + 1], " ")
                /\ i' = 0
                /\ result' = <<>>
                /\ UNCHANGED <<lines, pc, ret>>
           ELSE /\ ret' = join(cleaned, "\n")
                /\ pc' = "done"
                /\ ResetScan
    /\ UNCHANGED <<_dictionary, loads, op, input, threadVars>>

\* the caller takes the return value; the process is ready for the next call
Return ==
    /\ pc = "done"
    /\ pc' = "idle" /\ op' = "none" /\ input' = <<>> /\ ret' = <<>>
    /\ UNCHANGED <<_dictionary, loads, scanVars, threadVars>>

Next ==
    \/ CallGetDictionary
    \/ Ready /\ \E token \in FragmentPool : CallIsWord(token)
    \/ Ready /\ \E fragments \in FragmentLists, max_short \in ShortLens :
                  CallShouldMerge(fragments, max_short)
    \/ Ready /\ \E text \in Strings : CallNormalizeLigatures(text)
    \/ Ready /\ \E token \in Strings : CallStripPunctuation(token)
    \/ Ready /\ \E t \in Texts : CallCleanBrokenWords(t)
    \/ TripleMerge
    \/ PairMerge
    \/ NoMerge
    \/ EndLine
    \/ Return

Spec == Init /\ [][Next]_vars

----------------------------------------------------------------------------
(* Several callers inside get_dictionary at once.  The function is three   *)
(* steps: the test `_dictionary is None`, the call of _load_dictionary,    *)
(* and the assignment to the global; a caller can be preempted between     *)
(* any two of them.                                                        *)

InitConc == Init

\* a caller enters get_dictionary (directly or through is_word)
T_Call(t) ==
    /\ tpc[t] = "idle"
    /\ tpc' = [tpc EXCEPT ![t] = "test"]
    /\ UNCHANGED <<_dictionary, loads, pc, op, input, ret, scanVars, tloc>>

\* if _dictionary is None:
T_Test(t) ==
    /\ tpc[t] = "test"
    /\ tpc' = [tpc EXCEPT ![t] = IF _dictionary.is_none THEN "load" ELSE "return"]
    /\ UNCHANGED <<_dictionary, loads, pc, op, input, ret, scanVars, tloc>>

\* ... = _load_dictionary()
T_Load(t) ==
    /\ tpc[t] = "load"
    /\ \E d \in _load_dictionary : tloc' = [tloc EXCEPT ![t] = d]
    /\ loads' = loads + 1
    /\ tpc' = [tpc EXCEPT ![t] = "store"]
    /\ UNCHANGED <<_dictionary, pc, op, input, ret, scanVars>>

\* _dictionary = ...
T_Store(t) ==
    /\ tpc[t] = "store"
    /\ _dictionary' = Some(tloc[t])
    /\ tpc' = [tpc EXCEPT ![t] = "return"]
    /\ UNCHANGED <<loads, pc, op, input, ret, scanVars, tloc>>

\* return _dictionary
T_Return(t) ==
    /\ tpc[t] = "return"
    /\ tloc' = [tloc EXCEPT ![t] = _dictionary.words]
    /\ tpc' = [tpc EXCEPT ![t] = "idle"]
    /\ UNCHANGED <<_dictionary, loads, pc, op, input, ret, scanVars>>

NextConc ==
    \E t \in Threads :
        T_Call(t) \/ T_Test(t) \/ T_Load(t) \/ T_Store(t) \/ T_Return(t)

SpecConc == InitConc /\ [][NextConc]_vars

----------------------------------------------------------------------------
(* Properties *)

\* the call of entry point `name` has returned; input and ret are its
\* arguments and its return value
Returned(name) == pc = "done" /\ op = name

\* the Lexicon as the returned call saw it
Lexicon == _dictionary.words

\* t with every ligature code point replaced by its ASCII expansion and
\* every other character kept, position by position
Expanded(t) ==
    concat([k \in 1..Len(t) |->
              IF t[k] \in LigatureChars THEN _LIGATURE_MAP[t[k]] ELSE <<t[k]>>])

HasLigature(t) == \E k \in 1..Len(t) : t[k] \in LigatureChars

\* no window of 2 or 3 adjacent tokens of a line of t satisfies a merge rule
NoMergeablePattern(t, d) ==
    \A n \in 1..Len(split(t, "\n")) :
        LET toks == split(split(t, "\n")[n], " ")
        IN  \A pos \in 0..(Len(toks) - 1) :
                ~triple_merges(toks, pos, d) /\ ~pair_merges(toks, pos, d)

(* C1: two alphabetic fragments A and B that are both Lexicon members      *)
(* (case-insensitively, as is_word tests it), neither of them a            *)
(* ligature-standalone fragment: clean_broken_words("A B") returns "A B".  *)
C1_RealWordPairUnmerged ==
    Returned("clean_broken_words") =>
        \A A \in TokenPool, B \in TokenPool :
            ( /\ input = A \o <<" ">> \o B
              /\ _is_fragment(A) /\ _is_fragment(B)
              /\ is_word(A, Lexicon) /\ is_word(B, Lexicon)
              /\ ~_is_ligature_fragment(A) /\ ~_is_ligature_fragment(B) )
            => ret = input

\* "a re" came back unmerged although "are" is a Lexicon word
C1_Witness ==
    /\ Returned("clean_broken_words")
    /\ \E A \in TokenPool, B \in TokenPool :
          /\ input = A \o <<" ">> \o B
          /\ _is_fragment(A) /\ _is_fragment(B)
          /\ is_word(A, Lexicon) /\ is_word(B, Lexicon)
          /\ ~_is_ligature_fragment(A) /\ ~_is_ligature_fragment(B)
          /\ is_word(A \o B, Lexicon)
          /\ ret = input

\* the suffix s of a text f + " " + s
SuffixAfter(f, t) == SubSeq(t, Len(f) + 2, Len(t))

StartsWithThenSpace(f, t) ==
    Len(t) > Len(f) /\ SubSeq(t, 1, Len(f) + 1) = f \o <<" ">>

(* C2 as stated: for every standalone ligature fragment f and every        *)
(* (non-empty) suffix s such that f+s is a Lexicon word,                   *)
(* clean_broken_words(f + " " + s) returns f+s.                            *)
C2_AnySuffixMerged ==
    Returned("clean_broken_words") =>
        \A f \in _LIGATURE_STANDALONE :
            ( /\ StartsWithThenSpace(f, input)
              /\ SuffixAfter(f, input) # <<>>
              /\ f \o SuffixAfter(f, input) \in Lexicon )
            => ret = f \o SuffixAfter(f, input)

(* C2, amended: for every standalone ligature fragment f and every         *)
(* non-empty suffix s made only of letters such that f+s is a Lexicon      *)
(* word, clean_broken_words(f + " " + s) returns f+s, also when f alone    *)
(* and s alone are Lexicon words.                                          *)
C2_AlphabeticSuffixMerged ==
    Returned("clean_broken_words") =>
        \A f \in _LIGATURE_STANDALONE :
            ( /\ StartsWithThenSpace(f, input)
              /\ _is_fragment(SuffixAfter(f, input))
              /\ ~HasLigature(SuffixAfter(f, input))
              /\ f \o SuffixAfter(f, input) \in Lexicon )
            => ret = f \o SuffixAfter(f, input)

\* "fi re" came back as "fire": both halves are Lexicon words
C2_Witness ==
    /\ Returned("clean_broken_words")
    /\ \E f \in _LIGATURE_STANDALONE :
          /\ StartsWithThenSpace(f, input)
          /\ _is_fragment(SuffixAfter(f, input))
          /\ f \in Lexicon /\ SuffixAfter(f, input) \in Lexicon
          /\ f \o SuffixAfter(f, input) \in Lexicon
          /\ ret = f \o SuffixAfter(f, input)

(* C3 as stated: with an empty Lexicon clean_broken_words returns its      *)
(* input text unchanged, for every input text.                             *)
C3_DegradedReturnsInput ==
    (Returned("clean_broken_words") /\ Lexicon = {}) => ret = input

(* C3, amended: with an empty Lexicon clean_broken_words returns its input *)
(* with every ligature code point replaced by its ASCII expansion and      *)
(* nothing else changed, so the input itself when it holds no ligature     *)
(* code point.                                                             *)
C3_DegradedReturnsNormalizedInput ==
    (Returned("clean_broken_words") /\ Lexicon = {}) =>
        /\ ret = Expanded(input)
        /\ ~HasLigature(input) => ret = input

\* degraded mode, on a text that holds spaces, and a ligature code point
C3_Witness ==
    /\ Returned("clean_broken_words") /\ Lexicon = {}
    /\ HasLigature(input)
    /\ \E k \in 1..Len(input) : input[k] = " "
    /\ ret = Expanded(input) /\ ret # input

(* C4 as stated: for any text t in which no window of 2 or 3 adjacent      *)
(* tokens satisfies a merge rule (before and after the ligatures are       *)
(* normalized), clean_broken_words(t) == t.                                *)
C4_CleanTextUnchanged ==
    ( /\ Returned("clean_broken_words")
      /\ NoMergeablePattern(input, Lexicon)
      /\ NoMergeablePattern(Expanded(input), Lexicon) )
    => ret = input

(* C4, amended: for any text t in which, once its ligature code points are *)
(* expanded, no window of 2 or 3 adjacent tokens satisfies a merge rule,   *)
(* clean_broken_words(t) is t with its ligature code points expanded,      *)
(* character for character, runs of spaces and empty lines included; it is *)
(* t itself when t holds no ligature code point.                           *)
C4_CleanTextOnlyNormalized ==
    ( /\ Returned("clean_broken_words")
      /\ NoMergeablePattern(Expanded(input), Lexicon) )
    => /\ ret = Expanded(input)
       /\ ~HasLigature(input) => ret = input

\* a text with a run of spaces or an empty line, scanned with a loaded
\* Lexicon and returned as it was
C4_Witness ==
    /\ Returned("clean_broken_words")
    /\ Lexicon # {}
    /\ NoMergeablePattern(Expanded(input), Lexicon)
    /\ \E k \in 1..(Len(input) - 1) :
          input[k] = input[k + 1] /\ input[k] \in Separators
    /\ \E k \in 1..Len(input) : isalpha(input[k])
    /\ ret = input

\* the decomposition of the token at 0-based position pos of _clean_line
leading(pos)  == _strip_punctuation(tokens[pos + 1])[1]
core(pos)     == _strip_punctuation(tokens[pos + 1])[2]
trailing(pos) == _strip_punctuation(tokens[pos + 1])[3]

(* C5: whenever the scanner merges the 2-token window (i, i+1) it emits    *)
(* exactly leading(i) + core(i) + core(i+1) + trailing(i+1); whenever it   *)
(* merges the 3-token window it emits leading(i) + core(i) + core(i+1) +   *)
(* core(i+2) + trailing(i+2).                                              *)
C5_PunctuationPreserved ==
    [][ /\ (pc = "scan" /\ i' = i + 2) =>
              result' = Append(result, leading(i) \o core(i) \o core(i + 1)
                                         \o trailing(i + 1))
        /\ (pc = "scan" /\ i' = i + 3) =>
              result' = Append(result, leading(i) \o core(i) \o core(i + 1)
                                         \o core(i + 2) \o trailing(i + 2)) ]_vars

\* a 2-token merge has just been emitted that carries the leading
\* punctuation of its first token and the trailing one of its second
C5_Witness ==
    /\ pc = "scan" /\ i >= 2 /\ result # <<>>
    /\ leading(i - 2) # <<>> /\ trailing(i - 1) # <<>>
    /\ result[Len(result)] =
          leading(i - 2) \o core(i - 2) \o core(i - 1) \o trailing(i - 1)
    /\ result[Len(result)] = tokens[i - 1] \o tokens[i]

(* C6 as stated: _strip_punctuation(token) = (leading, core, trailing)     *)
(* with leading + core + trailing == token, and core empty or wholly       *)
(* alphabetic.                                                             *)
C6_CoreWhollyAlphabetic ==
    Returned("_strip_punctuation") =>
        /\ ret[1] \o ret[2] \o ret[3] = input
        /\ ret[2] = <<>> \/ \A k \in 1..Len(ret[2]) : isalpha(ret[2][k])

(* C6, amended: leading + core + trailing == token, and core is either     *)
(* empty or begins and ends with an alphabetic character (characters in    *)
(* between may be non-alphabetic, as in "don't").                          *)
C6_CoreAlphabeticAtBothEnds ==
    Returned("_strip_punctuation") =>
        /\ ret[1] \o ret[2] \o ret[3] = input
        /\ ret[2] = <<>> \/ (isalpha(ret[2][1]) /\ isalpha(ret[2][Len(ret[2])]))

\* a token with punctuation before and inside its core
C6_Witness ==
    /\ Returned("_strip_punctuation")
    /\ ret[1] # <<>>
    /\ \E k \in 1..Len(ret[2]) : ~isalpha(ret[2][k])
    /\ ret[1] \o ret[2] \o ret[3] = input

QueryOps == {"get_dictionary", "is_word", "_should_merge", "clean_broken_words"}

(* C8: in a single-threaded process the Lexicon is built by the first      *)
(* query and not before, at most once (also when the build yields an       *)
(* empty Lexicon), and once built it is never changed.                     *)
C8_BuiltOnceNeverChanged ==
    /\ [](/\ loads <= 1
          /\ _dictionary.is_none <=> loads = 0
          /\ op \in QueryOps => ~_dictionary.is_none)
    /\ [][ /\ ~_dictionary.is_none => _dictionary' = _dictionary
           /\ _dictionary' # _dictionary => (pc = "idle" /\ op' \in QueryOps) ]_vars

\* a query has returned with the Lexicon built empty, by one load
C8_Witness ==
    /\ pc = "done" /\ op \in QueryOps
    /\ _dictionary = Some({})
    /\ loads = 1

(* C9: when several callers race on the first access to the Lexicon,       *)
(* _load_dictionary never runs twice and the cached Lexicon is never       *)
(* replaced after it has been set.                                         *)
C9_SingleInitialization ==
    /\ [](loads <= 1)
    /\ [][~_dictionary.is_none => _dictionary' = _dictionary]_vars

(* C10: _should_merge(fragments, max_short) is true if and only if the     *)
(* lowercased concatenation of the fragments is a Lexicon member, at least *)
(* one fragment has length <= max_short, and not all fragments are         *)
(* (case-insensitively) Lexicon members.                                   *)
C10_GeneralRule ==
    Returned("_should_merge") =>
        LET fragments == input[1]
            max_short == input[2]
        IN  ret <=>
              /\ lower(concat(fragments)) \in Lexicon
              /\ \E k \in 1..Len(fragments) : Len(fragments[k]) <= max_short
              /\ ~ \A k \in 1..Len(fragments) : lower(fragments[k]) \in Lexicon

\* three fragments, one of them in upper case, merged because the shortest
\* one is exactly max_short long
C10_Witness ==
    /\ Returned("_should_merge")
    /\ ret = TRUE
    /\ Len(input[1]) = 3
    /\ \E k \in 1..3 : lower(input[1][k]) # input[1][k]
    /\ \A k \in 1..3 : Len(input[1][k]) >= input[2]

----------------------------------------------------------------------------
(* The 2-token window *)

\* the punctuation constraints of the 2-token window at position pos: both
\* cores are fragments, nothing trails the first, nothing leads the second
PairConstraints(pos) ==
    /\ pos + 1 < Len(tokens)
    /\ _is_fragment(core(pos)) /\ trailing(pos) = <<>>
    /\ _is_fragment(core(pos + 1)) /\ leading(pos + 1) = <<>>

\* the general rule on the two cores, with maxShortLen = 3
PairGeneralRule(pos) ==
    /\ lower(core(pos) \o core(pos + 1)) \in Lexicon
    /\ Len(core(pos)) <= 3 \/ Len(core(pos + 1)) <= 3
    /\ lower(core(pos)) \notin Lexicon \/ lower(core(pos + 1)) \notin Lexicon

\* the standalone ligature fragment override
PairStandaloneRule(pos) ==
    /\ lower(core(pos)) \in { <<"f","i">>, <<"f","l">>, <<"f","f">>,
                              <<"f","f","i">>, <<"f","f","l">>, <<"f","t">> }
    /\ lower(core(pos) \o core(pos + 1)) \in Lexicon

\* the ligature boundary pattern
PairBoundaryRule(pos) ==
    /\ \E e \in { <<"f","i">>, <<"f","l">>, <<"f","f">>, <<"f","f","i">>,
                   <<"f","f","l">>, <<"f","t">>, <<"c","t">>, <<"s","t">> } :
           /\ Len(core(pos)) >= Len(e)
           /\ SubSeq(lower(core(pos)), Len(core(pos)) - Len(e) + 1,
                     Len(core(pos))) = e
    /\ lower(core(pos) \o core(pos + 1)) \in Lexicon
    /\ lower(core(pos)) \notin Lexicon

----------------------------------------------------------------------------
(* Priority and advance of the scanner *)

\* the 3-token attempt at pos succeeds: three fragments with no punctuation
\* between them that pass the general rule with maxShortLen = 4
TripleFires(pos) ==
    /\ pos + 2 < Len(tokens)
    /\ \A k \in 0..2 : _is_fragment(core(pos + k))
    /\ trailing(pos) = <<>>
    /\ leading(pos + 1) = <<>> /\ trailing(pos + 1) = <<>>
    /\ leading(pos + 2) = <<>>
    /\ lower(core(pos) \o core(pos + 1) \o core(pos + 2)) \in Lexicon
    /\ \E k \in 0..2 : Len(core(pos + k)) <= 4
    /\ \E k \in 0..2 : lower(core(pos + k)) \notin Lexicon

\* the 2-token attempt at pos succeeds
PairFires(pos) ==
    /\ PairConstraints(pos)
    /\ PairGeneralRule(pos) \/ PairStandaloneRule(pos) \/ PairBoundaryRule(pos)

----------------------------------------------------------------------------
(* Tokens that cannot be merged *)

\* the core of the token at pos is empty (an empty or punctuation-only
\* token) or has a character that is not a letter
Malformed(pos) ==
    \/ core(pos) = <<>>
    \/ \E k \in 1..Len(core(pos)) : core(pos)[k] \notin AlphaChars

(* C13: a token whose core is empty or not wholly alphabetic is in no      *)
(* merged window, of 2 or of 3 tokens, whatever its position in the        *)
(* window, and when the scanner stands on it the token is emitted          *)
(* unchanged and i advances by 1.  A punctuation-only token has an empty   *)
(* core.  Every step of the scanner moves i forward and keeps it within    *)
(* the token list, so the scan goes on to the end of the line.             *)
C13_MalformedNeverMerged ==
    /\ [][ (pc = "scan" /\ i < Len(tokens)) =>
             /\ i' = i + 2 => ~Malformed(i) /\ ~Malformed(i + 1)
             /\ i' = i + 3 => \A k \in 0..2 : ~Malformed(i + k)
             /\ Malformed(i) => /\ i' = i + 1
                                /\ result' = Append(result, tokens[i + 1])
             /\ pc' = "scan" /\ i' > i /\ i' <= Len(tokens)
          ]_vars
    /\ []( ( /\ Returned("_strip_punctuation")
             /\ \A k \in 1..Len(input) : input[k] \notin AlphaChars )
           => ret = << input, <<>>, <<>> >> )

\* a fragment and a token with an apostrophe inside, whose concatenation is
\* a Lexicon member, have both been emitted as they were
C13_Witness ==
    /\ pc = "scan" /\ i >= 2
    /\ ~Malformed(i - 2)
    /\ Malformed(i - 1) /\ core(i - 1) # <<>>
    /\ lower(tokens[i - 1] \o tokens[i]) \in Lexicon
    /\ Len(result) >= 2
    /\ result[Len(result) - 1] = tokens[i - 1]
    /\ result[Len(result)] = tokens[i]

----------------------------------------------------------------------------
(* Content preservation *)

\* s with every space character removed
without_spaces(s) == SelectSeq(s, LAMBDA c : c # " ")

\* s can be obtained from t by deleting characters of t
RECURSIVE IsSubsequence(_, _)
IsSubsequence(s, t) ==
    IF s = <<>> THEN TRUE
    ELSE IF t = <<>> THEN FALSE
    ELSE IF Head(s) = Head(t) THEN IsSubsequence(Tail(s), Tail(t))
    ELSE IsSubsequence(s, Tail(t))

(* C14: for every text t and every Lexicon, the empty one included,        *)
(* clean_broken_words(t) with the spaces removed equals the                *)
(* ligature-expanded t with the spaces removed, and the result is the      *)
(* expanded t with some of its spaces deleted; newlines are characters     *)
(* like any other here, so no merge crosses one.  During a scan, the       *)
(* tokens emitted so far are, concatenated, exactly the tokens consumed so *)
(* far: none twice, none skipped.                                          *)
C14_ContentPreserved ==
    /\ Returned("clean_broken_words") =>
          /\ without_spaces(ret) = without_spaces(Expanded(input))
          /\ IsSubsequence(ret, Expanded(input))
    /\ pc = "scan" =>
          /\ i <= Len(tokens)
          /\ concat(result) = concat(SubSeq(tokens, 1, i))
          /\ Len(cleaned_lines) = li - 1
          /\ \A n \in 1..(li - 1) :
                without_spaces(cleaned_lines[n]) = without_spaces(lines[n])

\* "fi t" was merged on the first line; "t" and "a" on either side of the
\* newline were not, although "ta" is a Lexicon member
C14_Witness ==
    /\ Returned("clean_broken_words")
    /\ input = <<"f", "i", " ", "t", "\n", "a">>
    /\ ret = <<"f", "i", "t", "\n", "a">>
    /\ <<"t", "a">> \in Lexicon

====
